---- MODULE Spec2Model ----
(***************************************************************************)
(* Comic Book AI Generator (src/index.tsx): the App component's state, the *)
(* streaming script parser of generateScripts, the bulk and single-panel   *)
(* image pipelines and the script-review intents.                          *)
(* Text is a sequence of one-character strings, so that a script stream    *)
(* can be cut at any character.                                            *)
(***************************************************************************)
EXTENDS Integers, Sequences, FiniteSets, TLC

(***************************************************************************)
(* JSON.parse over texts made of  [ ] { } , : " space, decimal digits and  *)
(* letter groups (a group such as "script" stands for characters a stream  *)
(* does not cut apart).  A parse result is [ok, val, pos]: pos is the      *)
(* index after the parsed value.                                           *)
(***************************************************************************)
DigitChars == <<"0", "1", "2", "3", "4", "5", "6", "7", "8", "9">>

Digits == {DigitChars[k] : k \in 1..Len(DigitChars)}

DigitVal(c) == (CHOOSE k \in 1..Len(DigitChars) : DigitChars[k] = c) - 1

Undefined == [type |-> "undefined"]

JString(cs) == [type |-> "string", chars |-> cs]

JNumber(n) == [type |-> "number", num |-> n]

JArray(xs) == [type |-> "array", items |-> xs]

JObject(ms) == [type |-> "object", members |-> ms]

NoParse == [ok |-> FALSE, val |-> Undefined, pos |-> 0]

Parsed(v, p) == [ok |-> TRUE, val |-> v, pos |-> p]

\* The index of the first character at or after i that is not white space
\* (Len(s) + 1 when there is none).
RECURSIVE SkipWs(_, _)
SkipWs(s, i) == IF i <= Len(s) /\ s[i] = " " THEN SkipWs(s, i + 1) ELSE i

\* The index of the first quote at or after i, 0 when there is none.
RECURSIVE ClosingQuote(_, _)
ClosingQuote(s, i) ==
  IF i > Len(s) THEN 0
  ELSE IF s[i] = "\"" THEN i
  ELSE ClosingQuote(s, i + 1)

\* A string literal opening at s[i]: it runs to the next quote.
ParseString(s, i) ==
  LET j == ClosingQuote(s, i + 1)
  IN IF j = 0 THEN NoParse
     ELSE Parsed(JString(SubSeq(s, i + 1, j - 1)), j + 1)

RECURSIVE NumberValue(_)
NumberValue(ds) ==
  IF ds = <<>> THEN 0
  ELSE 10 * NumberValue(SubSeq(ds, 1, Len(ds) - 1)) + DigitVal(ds[Len(ds)])

\* The index after the run of digits starting at s[i].
RECURSIVE DigitsEnd(_, _)
DigitsEnd(s, i) ==
  IF i <= Len(s) /\ s[i] \in Digits THEN DigitsEnd(s, i + 1) ELSE i

\* A number starting at s[i]: the longest run of digits, with no leading zero.
ParseNumber(s, i) ==
  LET stop == DigitsEnd(s, i)
  IN IF stop - i > 1 /\ s[i] = "0" THEN NoParse
     ELSE Parsed(JNumber(NumberValue(SubSeq(s, i, stop - 1))), stop)

RECURSIVE ParseValue(_, _), ParseElements(_, _, _), ParseMembers(_, _, _)

\* A value starting at s[i], s[i] not white space.
ParseValue(s, i) ==
  IF i > Len(s) THEN NoParse
  ELSE IF s[i] = "\"" THEN ParseString(s, i)
  ELSE IF s[i] \in Digits THEN ParseNumber(s, i)
  ELSE IF s[i] = "[" THEN
    LET j == SkipWs(s, i + 1)
    IN IF j <= Len(s) /\ s[j] = "]" THEN Parsed(JArray(<<>>), j + 1)
       ELSE ParseElements(s, j, <<>>)
  ELSE IF s[i] = "{" THEN
    LET j == SkipWs(s, i + 1)
    IN IF j <= Len(s) /\ s[j] = "}" THEN Parsed(JObject(<<>>), j + 1)
       ELSE ParseMembers(s, j, <<>>)
  ELSE NoParse

\* The elements of an array from s[i] on, acc holding those before; a comma
\* must be followed by another element.
ParseElements(s, i, acc) ==
  LET r == ParseValue(s, i)
      j == SkipWs(s, r.pos)
  IN IF ~r.ok \/ j > Len(s) THEN NoParse
     ELSE IF s[j] = "," THEN ParseElements(s, SkipWs(s, j + 1), Append(acc, r.val))
     ELSE IF s[j] = "]" THEN Parsed(JArray(Append(acc, r.val)), j + 1)
     ELSE NoParse

\* The members of an object from s[i] on; a repeated key keeps its last value.
ParseMembers(s, i, acc) ==
  IF i > Len(s) \/ s[i] # "\"" THEN NoParse
  ELSE
    LET k == ParseString(s, i)
        c == SkipWs(s, k.pos)
    IN IF ~k.ok \/ c > Len(s) \/ s[c] # ":" THEN NoParse
       ELSE
         LET r == ParseValue(s, SkipWs(s, c + 1))
             j == SkipWs(s, r.pos)
             ms == (k.val.chars :> r.val) @@ acc
         IN IF ~r.ok \/ j > Len(s) THEN NoParse
            ELSE IF s[j] = "," THEN ParseMembers(s, SkipWs(s, j + 1), ms)
            ELSE IF s[j] = "}" THEN Parsed(JObject(ms), j + 1)
            ELSE NoParse

\* JSON.parse(s): one value with nothing but white space around it; ok is
\* FALSE where JSON.parse throws.
JSONParse(s) ==
  LET r == ParseValue(s, SkipWs(s, 1))
  IN IF r.ok /\ SkipWs(s, r.pos) = Len(s) + 1 THEN r ELSE NoParse


(***************************************************************************)
(* Scenes.                                                                 *)
(***************************************************************************)
\* imageUrl: null while the image is pending or loading, 'RETRYING', 'FAILED'
\* or an image reference.
Null == "null"

Retrying == "RETRYING"

Failed == "FAILED"

IsImage(u) == u \notin {Null, Retrying, Failed}

\* s.key as the spread {...s} copies it: undefined unless s is an object with
\* that key.
Field(v, key) ==
  IF v.type = "object" /\ <<key>> \in DOMAIN v.members
  THEN v.members[<<key>>]
  ELSE Undefined

\* A variant that lets a panel's own scene number stand.
ToScenesSourceTag(items) ==
  [i \in 1..Len(items) |->
    [scene |-> IF Field(items[i], "scene").type = "number"
               THEN Field(items[i], "scene").num ELSE i,
     script |-> Field(items[i], "script"),
     image_prompt |-> Field(items[i], "image_prompt"),
     panel_text |-> Field(items[i], "panel_text"),
     imageUrl |-> Null]]

\* parsed.map((s, i) => ({...s, scene: i+1, imageUrl: null})), keeping the
\* fields of Scene.
ToScenes(items) ==
  [i \in 1..Len(items) |->
    [scene |-> i,
     script |-> Field(items[i], "script"),
     image_prompt |-> Field(items[i], "image_prompt"),
     panel_text |-> Field(items[i], "panel_text"),
     imageUrl |-> Null]]

\* A variant that writes the url into every panel.
SetImageAll(scs, index, url) ==
  [i \in 1..Len(scs) |-> [scs[i] EXCEPT !.imageUrl = url]]

\* A variant that writes into the list as it was when the requests were
\* issued, every other panel pending.
SetImageOnSnapshot(scs, index, url) ==
  [i \in 1..Len(scs) |-> [scs[i] EXCEPT !.imageUrl = IF i = index THEN url ELSE Null]]

\* prev.map((s, i) => i === index ? {...s, imageUrl} : s), index counted from 1.
SetImage(scs, index, url) ==
  [i \in 1..Len(scs) |-> IF i = index THEN [scs[i] EXCEPT !.imageUrl = url] ELSE scs[i]]

(***************************************************************************)
(* The streaming script parser: one pass of the loop body of               *)
(* generateScripts on the buffer after a chunk was appended.               *)
(***************************************************************************)
EndsWith(buffer, c) == buffer # <<>> /\ buffer[Len(buffer)] = c

\* A variant that also closes an open object.
RepairCloseObject(buffer) == buffer \o <<"}", "]">>

\* buffer + (buffer.endsWith(',') ? ']' : ']'): both branches append the
\* bracket, no comma is stripped.
RepairCandidate(buffer) ==
  IF EndsWith(buffer, ",") THEN buffer \o <<"]">> ELSE buffer \o <<"]">>

NoEmit(last) == [emit |-> FALSE, scenes |-> <<>>, lastParsedLength |-> last]

Emit(items) == [emit |-> TRUE, scenes |-> ToScenes(items), lastParsedLength |-> Len(items)]

\* A variant that emits only the panels after the first lastParsedLength.
ParseStepNewOnly(buffer, last) ==
  LET strict == JSONParse(buffer)
      repair == JSONParse(RepairCandidate(buffer))
      fresh(items) == [emit |-> TRUE,
                       scenes |-> ToScenes(SubSeq(items, last + 1, Len(items))),
                       lastParsedLength |-> Len(items)]
  IN IF strict.ok
     THEN IF strict.val.type = "array" THEN fresh(strict.val.items) ELSE NoEmit(last)
     ELSE IF repair.ok /\ repair.val.type = "array" /\ Len(repair.val.items) > last
          THEN fresh(repair.val.items)
          ELSE NoEmit(last)

\* The strict parse emits whenever it yields an array; the repair parse only
\* when its array is longer than lastParsedLength.
ParseStep(buffer, last) ==
  LET strict == JSONParse(buffer)
      repair == JSONParse(RepairCandidate(buffer))
  IN IF strict.ok
     THEN IF strict.val.type = "array" THEN Emit(strict.val.items) ELSE NoEmit(last)
     ELSE IF repair.ok /\ repair.val.type = "array" /\ Len(repair.val.items) > last
          THEN Emit(repair.val.items)
          ELSE NoEmit(last)

(***************************************************************************)
(* Texts the script service may stream.                                    *)
(***************************************************************************)
Q == "\""

Str(cs) == <<Q>> \o cs \o <<Q>>

Member(key, value) == Str(<<key>>) \o <<":">> \o value

\* {"scene":n,"script":"sn","image_prompt":"pn","panel_text":"tn"}
PanelJson(n) ==
  <<"{">> \o Member("scene", <<DigitChars[n + 1]>>) \o <<",">>
          \o Member("script", Str(<<"s", DigitChars[n + 1]>>)) \o <<",">>
          \o Member("image_prompt", Str(<<"p", DigitChars[n + 1]>>)) \o <<",">>
          \o Member("panel_text", Str(<<"t", DigitChars[n + 1]>>)) \o <<"}">>

RECURSIVE PanelList(_)
PanelList(n) ==
  IF n = 1 THEN PanelJson(1) ELSE PanelList(n - 1) \o <<",">> \o PanelJson(n)

\* A script of n panels as the response schema asks for it.
ScriptText(n) == <<"[">> \o PanelList(n) \o <<"]">>

\* The range of the panel-count slider and the initial numPanels.
MinPanels == 5

MaxPanels == 10

DefaultPanels == 10

\* Texts 1 and 2 are scripts of exactly MinPanels panels and of one panel
\* more; the others are short texts of every shape.
Texts ==
  << ScriptText(MinPanels),
     ScriptText(MinPanels + 1),
     <<"[", "]">>,
     <<"[", "{">> \o Member("script", Str(<<"a", "b">>)) \o <<",">>
         \o Member("scene", <<"7">>) \o <<"}", ",", "{">>
         \o Member("script", Str(<<"c", ",">>)) \o <<",">>
         \o Member("panel_text", Str(<<"]">>)) \o <<"}", "]">>,
     <<" ", "[", " ", "{", "}", " ", ",", " ", "{">>
         \o Member("script", Str(<<"a">>)) \o <<"}", " ", ",", "{", "}", " ", "]", " ">>,
     <<"[", "{">> \o Member("script", Str(<<"a">>)) \o <<"}", ",", "{">>
         \o Member("script", Str(<<"b">>)) \o <<"}", ",", "{">>
         \o Member("script", Str(<<"c">>)) \o <<"}", "]">>,
     <<"[", "1", ",", "1", "2", ",", "[", "2", "]", ",">> \o Str(<<"a">>) \o <<"]">>,
     <<"{">> \o Member("a", <<"[", "1", "]">>) \o <<"}">>,
     <<"[", "[", "{", "}", "]", ",", "[", "{", "}", "]", "]">>,
     <<"[", "{", "}", "]", "]">> >>

TextIds == 1..Len(Texts)

SessionTextIds == 1..2

ParserTextIds == TextIds \ SessionTextIds

\* Where a fragment may end: a script in a session arrives in fragments ending
\* at the closing brace of panel MinPanels or at the end; a short text is cut
\* anywhere.
CutTable ==
  [t \in TextIds |->
    IF t \in SessionTextIds
    THEN {Len(ScriptText(MinPanels)) - 1, Len(Texts[t])} \cap 1..Len(Texts[t])
    ELSE 1..Len(Texts[t])]

CutPoints(t) == CutTable[t]

\* Is the text a valid array of panel objects?
IsPanelArray(s) ==
  /\ JSONParse(s).ok
  /\ JSONParse(s).val.type = "array"
  /\ \A i \in 1..Len(JSONParse(s).val.items) : JSONParse(s).val.items[i].type = "object"

\* ParseStep on the buffer Texts[t][1..p], for every value lastParsedLength
\* can have then (no more than the characters read).
ParseKeys ==
  {<<t, p, last>> \in TextIds \X (1..Len(ScriptText(MinPanels + 1))) \X (0..(MinPanels + 1)) :
     p \in CutPoints(t)}

ParseTable == [k \in ParseKeys |-> ParseStep(SubSeq(Texts[k[1]], 1, k[2]), k[3])]

(***************************************************************************)
(* Bounds of the model.                                                    *)
(***************************************************************************)
\* Asynchronous operations (runs of generateScripts, of
\* handleStartImageGeneration and of handleRegenerateImage) in flight at once.
MaxInFlight == 2

\* Panels whose image requests may fail.
MaxFlaky == 1

(***************************************************************************)
(* State: the useState cells of App, and the asynchronous operations in    *)
(* flight.                                                                 *)
(***************************************************************************)
VARIABLES
  storyIdea,             \* "" or an idea
  numPanels,
  isDevMode,
  isLoading,
  isGenerated,
  isReviewingScript,
  isRegeneratingScript,
  isRegeneratingImage,
  progressMessage,       \* "error" while an error message is shown, else "info"
  scenes,
  characterImageB64,
  streams,               \* the runs of generateScripts in flight
  bulk,                  \* the run of handleStartImageGeneration, and its panel tasks
  regen,                 \* the run of handleRegenerateImage
  editingScene,          \* the scene the edit modal was opened on, or NoScene
  editedScene,           \* the modal's working copy, NoScene while it is unmounted
  isRegenerating,        \* the modal's own flag
  revision,              \* the run of handleRegenerateSingleScript
  isSlideshowOpen,
  currentIndex,          \* SlideshowModal's index, counted from 0
  isCompleted,           \* SlideshowModal's flag
  keyDeps                \* what the modal's key-handler effect last ran with

formVars == <<storyIdea, numPanels, isDevMode>>

flagVars == <<isLoading, isGenerated, isReviewingScript, isRegeneratingScript>>

imageVars == <<characterImageB64, bulk, regen, isRegeneratingImage>>

editorVars == <<editingScene, editedScene, isRegenerating, revision>>

slideVars == <<isSlideshowOpen, currentIndex, isCompleted, keyDeps>>

vars == <<formVars, flagVars, imageVars, progressMessage, scenes, streams, editorVars, slideVars>>

StoryIdeas == {"", "idea"}

NumPanelsChoices == {MinPanels, MaxPanels}

\* What a panel-image request can come back with: a response with an image
\* part, a response without one, or a rejection.
ImageResponses == {"image", "noImagePart", "rejected"}

\* The panels whose requests may fail; the requests of the others succeed.
\* They are also the panels the user selects for Regenerate Image, so that a
\* regeneration has every outcome.
FlakyPanels == 3..(2 + MaxFlaky)

ResponsesFor(i) == IF i \in FlakyPanels THEN ImageResponses ELSE {"image"}

\* generateSceneImage: the data URL of the image part; throws when the request
\* rejects or the response has no image part.
GenerateSceneImage(response) ==
  IF response = "image" THEN [ok |-> TRUE, url |-> "image"] ELSE [ok |-> FALSE, url |-> Null]

\* No run of handleStartImageGeneration.  In a run, charImgB64 is the const of
\* that name and requests collects the reference images that the run's calls
\* of generateSceneImage were given.
IdleBulk == [pc |-> "idle", tasks |-> <<>>, charImgB64 |-> Null, requests |-> {}]

IdleRegen == [pc |-> "idle", index |-> 0]

\* useState<Scene | null>(null)
NoScene == [scene |-> 0]

\* No run of handleRegenerateSingleScript; in a run, scene is
\* sceneToRegen.scene and mounted tells whether the modal that started it is
\* still there.
IdleRevision == [pc |-> "idle", scene |-> 0, mounted |-> FALSE]

\* The key-handler effect of SlideshowModal has nothing to act on while the
\* slideshow is closed.
NoDeps == [isOpen |-> FALSE]

\* A slot of streams with no run in it.
NoStream == [st |-> "none", owner |-> "", text |-> 0, pos |-> 0, lastParsedLength |-> 0]

NewStream(owner) ==
  [st |-> "calling", owner |-> owner, text |-> 0, pos |-> 0, lastParsedLength |-> 0]

StreamIds == 1..MaxInFlight

FreeIds == {r \in StreamIds : streams[r].st = "none"}

InFlight ==
  Cardinality(StreamIds \ FreeIds)
    + (IF bulk.pc = "idle" THEN 0 ELSE 1)
    + (IF regen.pc = "idle" THEN 0 ELSE 1)
    + (IF revision.pc = "idle" THEN 0 ELSE 1)

\* A new run takes the first free slot.
StartStream(owner) ==
  /\ InFlight < MaxInFlight
  /\ streams' = [streams EXCEPT ![CHOOSE r \in FreeIds : \A q \in FreeIds : r <= q] =
                   NewStream(owner)]

\* let buffer, as the fragments consumed so far.
Buffer(run) == SubSeq(Texts[run.text], 1, run.pos)

Init ==
  /\ storyIdea = ""
  /\ numPanels = DefaultPanels
  /\ isDevMode = TRUE
  /\ isLoading = FALSE
  /\ isGenerated = FALSE
  /\ isReviewingScript = FALSE
  /\ isRegeneratingScript = FALSE
  /\ isRegeneratingImage = FALSE
  /\ progressMessage = "info"
  /\ scenes = <<>>
  /\ characterImageB64 = Null
  /\ streams = [r \in StreamIds |-> NoStream]
  /\ bulk = IdleBulk
  /\ regen = IdleRegen
  /\ editingScene = NoScene
  /\ editedScene = NoScene
  /\ isRegenerating = FALSE
  /\ revision = IdleRevision
  /\ isSlideshowOpen = FALSE
  /\ currentIndex = 0
  /\ isCompleted = FALSE
  /\ keyDeps = NoDeps

(***************************************************************************)
(* The story form, shown while nothing is generated, loading or reviewed.  *)
(***************************************************************************)
FormVisible == ~isGenerated /\ ~isLoading /\ ~isReviewingScript

SetStoryIdea ==
  /\ FormVisible
  /\ \E idea \in StoryIdeas \ {storyIdea} : storyIdea' = idea
  /\ UNCHANGED <<slideVars, editorVars, numPanels, isDevMode, flagVars, imageVars, progressMessage, scenes, streams>>

SetNumPanels ==
  /\ FormVisible
  /\ \E n \in NumPanelsChoices \ {numPanels} : numPanels' = n
  /\ UNCHANGED <<slideVars, editorVars, storyIdea, isDevMode, flagVars, imageVars, progressMessage, scenes, streams>>

ToggleDevMode ==
  /\ FormVisible
  /\ isDevMode' = ~isDevMode
  /\ UNCHANGED <<slideVars, editorVars, storyIdea, numPanels, flagVars, imageVars, progressMessage, scenes, streams>>

\* handleGenerate, up to the await of generateContentStream in generateScripts.
HandleGenerate ==
  /\ FormVisible
  /\ storyIdea # ""
  /\ isGenerated' = FALSE
  /\ scenes' = <<>>
  /\ characterImageB64' = Null
  /\ isReviewingScript' = TRUE
  /\ isLoading' = FALSE
  /\ progressMessage' = "info"
  /\ StartStream("generate")
  /\ UNCHANGED <<slideVars, editorVars, formVars, isRegeneratingScript, bulk, regen, isRegeneratingImage>>

(***************************************************************************)
(* generateScripts and its callers' continuations.                         *)
(***************************************************************************)
\* After generateAndStreamScripts returns: handleRegenerateScripts clears its
\* flag, handleGenerate has nothing left to do.
Resume(run) ==
  isRegeneratingScript' = IF run.owner = "regenerate" THEN FALSE ELSE isRegeneratingScript

\* generateContentStream resolves with a stream.
StreamOpen(r) ==
  /\ streams[r].st = "calling"
  /\ \E t \in SessionTextIds :
       streams' = [streams EXCEPT ![r] = [@ EXCEPT !.st = "reading", !.text = t]]
  /\ UNCHANGED <<slideVars, editorVars, formVars, flagVars, imageVars, progressMessage, scenes>>

\* generateContentStream rejects: generateAndStreamScripts catches.
StreamReject(r) ==
  /\ streams[r].st = "calling"
  /\ progressMessage' = "error"
  /\ Resume(streams[r])
  /\ streams' = [streams EXCEPT ![r] = NoStream]
  /\ UNCHANGED <<slideVars, editorVars, formVars, isLoading, isGenerated, isReviewingScript, imageVars, scenes>>

\* One iteration of the for-await loop, on a fragment that ends at cut point p.
StreamChunk(r) ==
  /\ streams[r].st = "reading"
  /\ \E p \in CutPoints(streams[r].text) :
       /\ p > streams[r].pos
       /\ LET step == ParseTable[<<streams[r].text, p, streams[r].lastParsedLength>>]
          IN /\ scenes' = IF step.emit THEN step.scenes ELSE scenes
             /\ streams' = [streams EXCEPT ![r] =
                              [@ EXCEPT !.pos = p, !.lastParsedLength = step.lastParsedLength]]
  /\ UNCHANGED <<slideVars, editorVars, formVars, flagVars, imageVars, progressMessage>>

\* The stream ends (where the service stops, be the text complete or not).
StreamEnd(r) ==
  /\ streams[r].st = "reading"
  /\ progressMessage' = "info"
  /\ Resume(streams[r])
  /\ streams' = [streams EXCEPT ![r] = NoStream]
  /\ UNCHANGED <<slideVars, editorVars, formVars, isLoading, isGenerated, isReviewingScript, imageVars, scenes>>

\* The stream throws while being read.
StreamError(r) ==
  /\ streams[r].st = "reading"
  /\ progressMessage' = "error"
  /\ Resume(streams[r])
  /\ streams' = [streams EXCEPT ![r] = NoStream]
  /\ UNCHANGED <<slideVars, editorVars, formVars, isLoading, isGenerated, isReviewingScript, imageVars, scenes>>

(***************************************************************************)
(* ScriptReview: the two buttons share one disabled condition.             *)
(***************************************************************************)
ButtonsDisabled == Len(scenes) < numPanels \/ isRegeneratingScript

RegenerateEnabled == isReviewingScript /\ ~ButtonsDisabled

ApproveEnabled == isReviewingScript /\ ~ButtonsDisabled

\* handleRegenerateScripts, up to the await in generateScripts.
HandleRegenerateScripts ==
  /\ RegenerateEnabled
  /\ isRegeneratingScript' = TRUE
  /\ scenes' = <<>>
  /\ isGenerated' = FALSE
  /\ StartStream("regenerate")
  /\ UNCHANGED <<slideVars, editorVars, formVars, isLoading, isReviewingScript, imageVars, progressMessage>>

(***************************************************************************)
(* handleStartImageGeneration.  A task of the panel map is "waiting" until *)
(* the character image is there, then "first" (first request in flight),   *)
(* "backoff" (the 500 ms timer), "second", and at last "ready" or "failed".*)
(***************************************************************************)
Resolved(task) == task \in {"ready", "failed"}

\* The click on Approve, up to the first await: the placeholder branch maps
\* the scenes of the click's render, the other awaits generateCharacterImage.
HandleStartImageGeneration ==
  /\ ApproveEnabled
  /\ InFlight < MaxInFlight
  /\ isReviewingScript' = FALSE
  /\ isLoading' = TRUE
  /\ IF isDevMode
     THEN /\ progressMessage' = "info"
          /\ scenes' = [i \in 1..Len(scenes) |-> [scenes[i] EXCEPT !.imageUrl = "placeholder"]]
          /\ bulk' = [IdleBulk EXCEPT !.pc = "devWait"]
     ELSE /\ progressMessage' = "info"
          /\ scenes' = scenes
          /\ bulk' = [IdleBulk EXCEPT !.pc = "charImage",
                                       !.tasks = [i \in 1..Len(scenes) |-> "waiting"]]
  /\ UNCHANGED <<slideVars, editorVars, formVars, isGenerated, isRegeneratingScript, characterImageB64, regen,
                 isRegeneratingImage, streams>>

\* After the try block: 'Your comic is complete!', then finally.
Complete ==
  /\ progressMessage' = "info"
  /\ isGenerated' = TRUE
  /\ isLoading' = FALSE

\* The 1000 ms timer of the placeholder branch fires.
BulkPlaceholderDone ==
  /\ bulk.pc = "devWait"
  /\ Complete
  /\ bulk' = IdleBulk
  /\ UNCHANGED <<slideVars, editorVars, formVars, isReviewingScript, isRegeneratingScript, characterImageB64, regen,
                 isRegeneratingImage, scenes, streams>>

\* What generateCharacterImage resolves with.
CharacterImage == "charImage"

\* A variant that hands the panel requests the characterImageB64 of the
\* click's render.
CharImageResolveFromState ==
  /\ bulk.pc = "charImage"
  /\ characterImageB64' = CharacterImage
  /\ progressMessage' = "info"
  /\ bulk' = [bulk EXCEPT !.pc = "panels",
                          !.tasks = [i \in 1..Len(bulk.tasks) |-> "first"],
                          !.charImgB64 = CharacterImage,
                          !.requests = {characterImageB64}]
  /\ UNCHANGED <<slideVars, editorVars, formVars, flagVars, regen, isRegeneratingImage, scenes, streams>>

\* generateCharacterImage resolves: every panel's first request is issued,
\* with the const charImgB64.
CharImageResolve ==
  /\ bulk.pc = "charImage"
  /\ characterImageB64' = CharacterImage
  /\ progressMessage' = "info"
  /\ bulk' = [bulk EXCEPT !.pc = "panels",
                          !.tasks = [i \in 1..Len(bulk.tasks) |-> "first"],
                          !.charImgB64 = CharacterImage,
                          !.requests = {CharacterImage}]
  /\ UNCHANGED <<slideVars, editorVars, formVars, flagVars, regen, isRegeneratingImage, scenes, streams>>

\* A variant that goes on to the completion after the catch.
CharImageFailComplete ==
  /\ bulk.pc = "charImage"
  /\ progressMessage' = "error"
  /\ isLoading' = FALSE
  /\ isGenerated' = TRUE
  /\ bulk' = IdleBulk
  /\ UNCHANGED <<slideVars, editorVars, formVars, isReviewingScript, isRegeneratingScript,
                 characterImageB64, regen, isRegeneratingImage, scenes, streams>>

\* A variant without the finally block.
CharImageFailNoFinally ==
  /\ bulk.pc = "charImage"
  /\ progressMessage' = "error"
  /\ bulk' = IdleBulk
  /\ UNCHANGED <<slideVars, editorVars, formVars, flagVars,
                 characterImageB64, regen, isRegeneratingImage, scenes, streams>>

\* generateCharacterImage throws: the outer catch, then finally.
CharImageFail ==
  /\ bulk.pc = "charImage"
  /\ progressMessage' = "error"
  /\ isLoading' = FALSE
  /\ bulk' = IdleBulk
  /\ UNCHANGED <<slideVars, editorVars, formVars, isGenerated, isReviewingScript, isRegeneratingScript,
                 characterImageB64, regen, isRegeneratingImage, scenes, streams>>

\* A variant in which a panel's second failure ends the whole operation.
TaskStepAbort(i, next, url) ==
  /\ scenes' = SetImage(scenes, i, url)
  /\ IF next = "failed" \/ \A j \in 1..Len(bulk.tasks) : j = i \/ Resolved(bulk.tasks[j])
     THEN /\ bulk' = [bulk EXCEPT !.pc = "idle", !.tasks[i] = next]
          /\ Complete
     ELSE /\ bulk' = [bulk EXCEPT !.tasks[i] = next]
          /\ UNCHANGED <<progressMessage, isGenerated, isLoading>>

\* A step of panel task i that writes url and moves the task to state next.
\* When it resolves the last task, Promise.all resolves in the same turn and
\* the handler runs to its end; tasks keeps the settled values.
TaskStep(i, next, url) ==
  /\ scenes' = SetImage(scenes, i, url)
  /\ IF Resolved(next) /\ \A j \in 1..Len(bulk.tasks) : j = i \/ Resolved(bulk.tasks[j])
     THEN /\ bulk' = [bulk EXCEPT !.pc = "idle", !.tasks[i] = next]
          /\ Complete
     ELSE /\ bulk' = [bulk EXCEPT !.tasks[i] = next]
          /\ UNCHANGED <<progressMessage, isGenerated, isLoading>>

\* A variant that gives a panel up at its first failure.
TaskFirstAttemptOnce(i) ==
  /\ bulk.pc = "panels"
  /\ bulk.tasks[i] = "first"
  /\ \E response \in ResponsesFor(i) :
       LET got == GenerateSceneImage(response)
       IN IF got.ok
          THEN TaskStep(i, "ready", got.url)
          ELSE TaskStep(i, "failed", Failed)
  /\ UNCHANGED <<slideVars, editorVars, formVars, isReviewingScript, isRegeneratingScript, characterImageB64, regen,
                 isRegeneratingImage, streams>>

\* The first request of panel i comes back.
TaskFirstAttempt(i) ==
  /\ bulk.pc = "panels"
  /\ bulk.tasks[i] = "first"
  /\ \E response \in ResponsesFor(i) :
       LET got == GenerateSceneImage(response)
       IN IF got.ok
          THEN TaskStep(i, "ready", got.url)
          ELSE TaskStep(i, "backoff", Retrying)
  /\ UNCHANGED <<slideVars, editorVars, formVars, isReviewingScript, isRegeneratingScript, characterImageB64, regen,
                 isRegeneratingImage, streams>>

\* The backoff timer of panel i fires: the second request is issued.
TaskBackoff(i) ==
  /\ bulk.pc = "panels"
  /\ bulk.tasks[i] = "backoff"
  /\ bulk' = [bulk EXCEPT !.tasks[i] = "second", !.requests = @ \cup {bulk.charImgB64}]
  /\ UNCHANGED <<slideVars, editorVars, formVars, flagVars, characterImageB64, regen, isRegeneratingImage, 
                 progressMessage, scenes, streams>>

\* The second request of panel i comes back.
TaskSecondAttempt(i) ==
  /\ bulk.pc = "panels"
  /\ bulk.tasks[i] = "second"
  /\ \E response \in ResponsesFor(i) :
       LET got == GenerateSceneImage(response)
       IN IF got.ok
          THEN TaskStep(i, "ready", got.url)
          ELSE TaskStep(i, "failed", Failed)
  /\ UNCHANGED <<slideVars, editorVars, formVars, isReviewingScript, isRegeneratingScript, characterImageB64, regen,
                 isRegeneratingImage, streams>>

(***************************************************************************)
(* handleRegenerateImage, from the Regenerate Image button of              *)
(* ComicBookDisplay on the selected panel.                                 *)
(***************************************************************************)
DisplayVisible == isGenerated /\ Len(scenes) > 0

\* isReadyForRegen for panel i as the selected panel.
IsReadyForRegen(i) ==
  /\ i \in 1..Len(scenes)
  /\ scenes[i].imageUrl # Null
  /\ ~isRegeneratingImage
  /\ scenes[i].imageUrl \notin {Retrying, Failed}

\* A variant that leaves the old image in place while the request runs.
HandleRegenerateImageKeep(i) ==
  /\ DisplayVisible
  /\ IsReadyForRegen(i)
  /\ ~(characterImageB64 = Null \/ isRegeneratingImage)
  /\ InFlight < MaxInFlight
  /\ isRegeneratingImage' = TRUE
  /\ scenes' = scenes
  /\ regen' = [pc |-> "first", index |-> i]
  /\ UNCHANGED <<slideVars, editorVars, formVars, flagVars, characterImageB64, bulk, progressMessage, streams>>

\* The click, up to the await of the first request; the handler returns at
\* once without a character image.
HandleRegenerateImage(i) ==
  /\ DisplayVisible
  /\ IsReadyForRegen(i)
  /\ ~(characterImageB64 = Null \/ isRegeneratingImage)
  /\ InFlight < MaxInFlight
  /\ isRegeneratingImage' = TRUE
  /\ scenes' = SetImage(scenes, i, Null)
  /\ regen' = [pc |-> "first", index |-> i]
  /\ UNCHANGED <<slideVars, editorVars, formVars, flagVars, characterImageB64, bulk, progressMessage, streams>>

\* The run ends: finally clears the flag.
RegenDone ==
  /\ isRegeneratingImage' = FALSE
  /\ regen' = IdleRegen

RegenFirstAttempt ==
  /\ regen.pc = "first"
  /\ \E response \in ResponsesFor(regen.index) :
       LET got == GenerateSceneImage(response)
       IN IF got.ok
          THEN /\ scenes' = SetImage(scenes, regen.index, got.url)
               /\ RegenDone
          ELSE /\ scenes' = SetImage(scenes, regen.index, Retrying)
               /\ regen' = [regen EXCEPT !.pc = "backoff"]
               /\ UNCHANGED isRegeneratingImage
  /\ UNCHANGED <<slideVars, editorVars, formVars, flagVars, characterImageB64, bulk, progressMessage, streams>>

RegenBackoff ==
  /\ regen.pc = "backoff"
  /\ regen' = [regen EXCEPT !.pc = "second"]
  /\ UNCHANGED <<slideVars, editorVars, formVars, flagVars, characterImageB64, bulk, isRegeneratingImage, 
                 progressMessage, scenes, streams>>

RegenSecondAttempt ==
  /\ regen.pc = "second"
  /\ \E response \in ResponsesFor(regen.index) :
       LET got == GenerateSceneImage(response)
       IN /\ scenes' = SetImage(scenes, regen.index, IF got.ok THEN got.url ELSE Failed)
          /\ RegenDone
  /\ UNCHANGED <<slideVars, editorVars, formVars, flagVars, characterImageB64, bulk, progressMessage, streams>>

\* startOver, from 'Create Another Comic'.
StartOver ==
  /\ isGenerated
  /\ ~isLoading
  /\ isGenerated' = FALSE
  /\ scenes' = <<>>
  /\ storyIdea' = ""
  /\ isReviewingScript' = FALSE
  /\ UNCHANGED <<slideVars, editorVars, numPanels, isDevMode, isLoading, isRegeneratingScript, imageVars,
                 progressMessage, streams>>

(***************************************************************************)
(* ScriptEditModal, opened from a panel of ScriptReview, with               *)
(* handleUpdateScene and handleRegenerateSingleScript.  The modal's overlay *)
(* covers the page; an alert blocks everything until it is dismissed.       *)
(***************************************************************************)
ModalOpen == editingScene # NoScene

AlertOpen == revision.pc = "alert"

\* What the user types into a textarea of the modal.
Typed == JString(<<"e">>)

\* Texts the script service may answer a single-panel request with: the object
\* the response schema asks for, and a text cut short.
RevisionTexts ==
  << <<"{">> \o Member("script", Str(<<"r", "1">>)) \o <<",">>
             \o Member("image_prompt", Str(<<"r", "2">>)) \o <<",">>
             \o Member("panel_text", Str(<<"r", "3">>)) \o <<"}">>,
     <<"{">> \o Member("script", Str(<<"r", "1">>)) \o <<",">> >>

RevisionParse == [t \in 1..Len(RevisionTexts) |-> JSONParse(RevisionTexts[t])]

\* generateContent rejects, or resolves with one of the texts.
RevisionResponses == {0} \cup (1..Len(RevisionTexts))

RevisionOk(response) == response # 0 /\ RevisionParse[response].ok

Has(v, key) == v.type = "object" /\ <<key>> \in DOMAIN v.members

\* A variant that builds the panel anew from the data, image pending.
MergeFresh(s, v) ==
  [scene |-> s.scene,
   script |-> Field(v, "script"),
   image_prompt |-> Field(v, "image_prompt"),
   panel_text |-> Field(v, "panel_text"),
   imageUrl |-> Null]

\* { ...s, ...newScriptData }: the keys the data has replace those of s.
Merge(s, v) ==
  [scene |-> IF Has(v, "scene")
             THEN (IF Field(v, "scene").type = "number" THEN Field(v, "scene").num ELSE 0)
             ELSE s.scene,
   script |-> IF Has(v, "script") THEN Field(v, "script") ELSE s.script,
   image_prompt |-> IF Has(v, "image_prompt") THEN Field(v, "image_prompt") ELSE s.image_prompt,
   panel_text |-> IF Has(v, "panel_text") THEN Field(v, "panel_text") ELSE s.panel_text,
   imageUrl |-> IF Has(v, "imageUrl") THEN Field(v, "imageUrl") ELSE s.imageUrl]

\* currentScenes.map(s => s.scene === sceneToRegen.scene ? {...s, ...data} : s)
ApplyRevision(scs, scene, v) ==
  [i \in 1..Len(scs) |-> IF scs[i].scene = scene THEN Merge(scs[i], v) ELSE scs[i]]

\* handleUpdateScene: the scene with the number of updatedScene is replaced by it.
UpdateScene(scs, updatedScene) ==
  [i \in 1..Len(scs) |-> IF scs[i].scene = updatedScene.scene THEN updatedScene ELSE scs[i]]

\* The panels of the review the user opens the modal on.
EditPanels == {1, 3}

\* onEditScene(scene): the modal mounts with its copy of the scene.
OpenEditor(k) ==
  /\ isReviewingScript
  /\ ~ModalOpen
  /\ ~AlertOpen
  /\ k \in 1..Len(scenes)
  /\ editingScene' = scenes[k]
  /\ editedScene' = scenes[k]
  /\ isRegenerating' = FALSE
  /\ UNCHANGED <<slideVars, formVars, flagVars, imageVars, progressMessage, scenes, streams, revision>>

\* The modal unmounts; a run it started goes on without it.
Unmount ==
  /\ editingScene' = NoScene
  /\ editedScene' = NoScene
  /\ isRegenerating' = FALSE
  /\ revision' = [revision EXCEPT !.mounted = FALSE]

\* onClose, from the close button or the overlay.
CloseEditor ==
  /\ ModalOpen
  /\ ~AlertOpen
  /\ Unmount
  /\ UNCHANGED <<slideVars, formVars, flagVars, imageVars, progressMessage, scenes, streams>>

\* handleChange on one of the two textareas.
HandleChange(name) ==
  /\ ModalOpen
  /\ ~AlertOpen
  /\ ~isRegenerating
  /\ editedScene[name] # Typed
  /\ editedScene' = [editedScene EXCEPT ![name] = Typed]
  /\ UNCHANGED <<slideVars, formVars, flagVars, imageVars, progressMessage, scenes, streams,
                 editingScene, isRegenerating, revision>>

\* handleSave: onSave(editedScene), then onClose.
HandleSave ==
  /\ ModalOpen
  /\ ~AlertOpen
  /\ ~isRegenerating
  /\ scenes' = UpdateScene(scenes, editedScene)
  /\ Unmount
  /\ UNCHANGED <<slideVars, formVars, flagVars, imageVars, progressMessage, streams>>

\* handleRegenerate of the modal, up to the await of generateContent.
HandleRegenerate ==
  /\ ModalOpen
  /\ ~AlertOpen
  /\ ~isRegenerating
  /\ InFlight < MaxInFlight
  /\ revision.pc = "idle"
  /\ isRegenerating' = TRUE
  /\ revision' = [pc |-> "calling", scene |-> editedScene.scene, mounted |-> TRUE]
  /\ UNCHANGED <<slideVars, formVars, flagVars, imageVars, progressMessage, scenes, streams,
                 editingScene, editedScene>>

\* finally { setIsRegenerating(false) }, on the modal that started the run.
RevisionDone ==
  /\ isRegenerating' = IF revision.mounted THEN FALSE ELSE isRegenerating
  /\ revision' = IdleRevision

\* generateContent resolves with a text JSON.parse accepts: the panel and the
\* scene being edited take the data, and the modal's effect copies the scene.
RevisionResolve ==
  /\ revision.pc = "calling"
  /\ \E response \in RevisionResponses :
       /\ RevisionOk(response)
       /\ scenes' = ApplyRevision(scenes, revision.scene, RevisionParse[response].val)
       /\ editingScene' = IF ModalOpen
                          THEN Merge(editingScene, RevisionParse[response].val)
                          ELSE NoScene
  /\ editedScene' = editingScene'
  /\ RevisionDone
  /\ UNCHANGED <<slideVars, formVars, flagVars, imageVars, progressMessage, streams>>

\* A variant that reports the failure as generateAndStreamScripts does.
RevisionFailSessionError ==
  /\ revision.pc = "calling"
  /\ \E response \in RevisionResponses : ~RevisionOk(response)
  /\ revision' = [revision EXCEPT !.pc = "alert"]
  /\ progressMessage' = "error"
  /\ UNCHANGED <<slideVars, formVars, flagVars, imageVars, scenes, streams,
                 editingScene, editedScene, isRegenerating>>

\* generateContent rejects or JSON.parse throws: the modal's catch shows an
\* alert.
RevisionFail ==
  /\ revision.pc = "calling"
  /\ \E response \in RevisionResponses : ~RevisionOk(response)
  /\ revision' = [revision EXCEPT !.pc = "alert"]
  /\ UNCHANGED <<slideVars, formVars, flagVars, imageVars, progressMessage, scenes, streams,
                 editingScene, editedScene, isRegenerating>>

\* The alert is dismissed: finally.
AlertDismiss ==
  /\ AlertOpen
  /\ RevisionDone
  /\ UNCHANGED <<slideVars, formVars, flagVars, imageVars, progressMessage, scenes, streams,
                 editingScene, editedScene>>

(***************************************************************************)
(* SlideshowModal, opened by Play Slideshow under the finished comic.  The  *)
(* modal is always mounted; its overlay covers the page while it is open.   *)
(* React runs the pending effects of a render before it handles the next    *)
(* event or the next update.                                                *)
(***************************************************************************)
\* The state App renders from.  Every render of App passes the modal a new
\* onClose, and goToNext is new whenever scenes.length is.
AppRender ==
  <<formVars, flagVars, progressMessage, scenes, characterImageB64, isRegeneratingImage,
    editingScene>>

\* The dependency list of the key-handler effect in the current render:
\* [isOpen, isCompleted, onClose, goToPrevious, goToNext].
KeyDeps ==
  IF isSlideshowOpen
  THEN [isOpen |-> TRUE, isCompleted |-> isCompleted, app |-> AppRender]
  ELSE NoDeps

\* The effect has yet to run for the current render.
EffectPending == keyDeps # KeyDeps

\* The key-handler effect runs because a dependency changed: while the modal
\* is open it sets the index to 0 and clears the flag, then adds the listener.
KeyEffect ==
  /\ EffectPending
  /\ currentIndex' = IF isSlideshowOpen THEN 0 ELSE currentIndex
  /\ isCompleted' = IF isSlideshowOpen THEN FALSE ELSE isCompleted
  /\ keyDeps' = KeyDeps
  /\ UNCHANGED <<formVars, flagVars, imageVars, progressMessage, scenes, streams, editorVars,
                 isSlideshowOpen>>

\* The Play Slideshow button.
PlaySlideshow ==
  /\ ~EffectPending
  /\ isGenerated /\ ~isLoading
  /\ ~isSlideshowOpen
  /\ isSlideshowOpen' = TRUE
  /\ UNCHANGED <<formVars, flagVars, imageVars, progressMessage, scenes, streams, editorVars,
                 currentIndex, isCompleted, keyDeps>>

\* onClose, from the close button, a click on the overlay or Escape; the
\* effect's cleanup removes the listener and its next run does nothing.
CloseSlideshow ==
  /\ ~EffectPending
  /\ isSlideshowOpen
  /\ isSlideshowOpen' = FALSE
  /\ keyDeps' = NoDeps
  /\ UNCHANGED <<formVars, flagVars, imageVars, progressMessage, scenes, streams, editorVars,
                 currentIndex, isCompleted>>

\* goToPrevious, from the button or ArrowLeft; keys are ignored and the
\* buttons are not rendered while isCompleted.
GoToPrevious ==
  /\ ~EffectPending
  /\ isSlideshowOpen /\ ~isCompleted
  /\ currentIndex' = IF currentIndex > 0 THEN currentIndex - 1 ELSE 0
  /\ UNCHANGED <<formVars, flagVars, imageVars, progressMessage, scenes, streams, editorVars,
                 isSlideshowOpen, isCompleted, keyDeps>>

\* goToNext, from the button or ArrowRight.
GoToNext ==
  /\ ~EffectPending
  /\ isSlideshowOpen /\ ~isCompleted
  /\ IF currentIndex < Len(scenes) - 1
     THEN currentIndex' = currentIndex + 1 /\ isCompleted' = isCompleted
     ELSE currentIndex' = currentIndex /\ isCompleted' = TRUE
  /\ UNCHANGED <<formVars, flagVars, imageVars, progressMessage, scenes, streams, editorVars,
                 isSlideshowOpen, keyDeps>>

\* handleRestart, from the Restart button of the completed view.
HandleRestart ==
  /\ ~EffectPending
  /\ isSlideshowOpen /\ isCompleted
  /\ isCompleted' = FALSE
  /\ currentIndex' = 0
  /\ UNCHANGED <<formVars, flagVars, imageVars, progressMessage, scenes, streams, editorVars,
                 isSlideshowOpen, keyDeps>>

(***************************************************************************)
(* Specifications.                                                         *)
(***************************************************************************)
Next ==
  \/ SetStoryIdea
  \/ SetNumPanels
  \/ ToggleDevMode
  \/ HandleGenerate
  \/ \E r \in StreamIds : StreamOpen(r)
  \/ \E r \in StreamIds : StreamReject(r)
  \/ \E r \in StreamIds : StreamChunk(r)
  \/ \E r \in StreamIds : StreamEnd(r)
  \/ \E r \in StreamIds : StreamError(r)
  \/ HandleRegenerateScripts
  \/ HandleStartImageGeneration
  \/ BulkPlaceholderDone
  \/ CharImageResolve
  \/ CharImageFail
  \/ \E i \in 1..Len(bulk.tasks) : TaskFirstAttempt(i)
  \/ \E i \in 1..Len(bulk.tasks) : TaskBackoff(i)
  \/ \E i \in 1..Len(bulk.tasks) : TaskSecondAttempt(i)
  \/ \E i \in FlakyPanels : HandleRegenerateImage(i)
  \/ RegenFirstAttempt
  \/ RegenBackoff
  \/ RegenSecondAttempt
  \/ StartOver

Spec == Init /\ [][Next]_vars

\* What the pending work of the image handlers does next: a request resolves
\* or rejects, or a timer fires.
BulkStep ==
  \/ BulkPlaceholderDone
  \/ CharImageResolve
  \/ CharImageFail
  \/ \E i \in 1..Len(bulk.tasks) : TaskFirstAttempt(i)
  \/ \E i \in 1..Len(bulk.tasks) : TaskBackoff(i)
  \/ \E i \in 1..Len(bulk.tasks) : TaskSecondAttempt(i)

RegenStep == RegenFirstAttempt \/ RegenBackoff \/ RegenSecondAttempt

\* The session with every image request answered and every timer fired in
\* the end: the event loop runs a settled promise's continuation and a due
\* timer's callback whatever else the user does.
SpecLive == Init /\ [][Next]_vars /\ WF_vars(BulkStep) /\ WF_vars(RegenStep)

\* The parser alone: a session whose stream has just opened on one of the
\* short texts, read in every possible fragmentation.
ParserInit ==
  /\ storyIdea = "idea"
  /\ numPanels = DefaultPanels
  /\ isDevMode = TRUE
  /\ isLoading = FALSE
  /\ isGenerated = FALSE
  /\ isReviewingScript = TRUE
  /\ isRegeneratingScript = FALSE
  /\ isRegeneratingImage = FALSE
  /\ progressMessage = "info"
  /\ scenes = <<>>
  /\ characterImageB64 = Null
  /\ \E t \in ParserTextIds :
       streams = [r \in StreamIds |->
                    IF r = 1
                    THEN [st |-> "reading", owner |-> "generate", text |-> t, pos |-> 0,
                          lastParsedLength |-> 0]
                    ELSE NoStream]
  /\ bulk = IdleBulk
  /\ regen = IdleRegen
  /\ editingScene = NoScene
  /\ editedScene = NoScene
  /\ isRegenerating = FALSE
  /\ revision = IdleRevision
  /\ isSlideshowOpen = FALSE
  /\ currentIndex = 0
  /\ isCompleted = FALSE
  /\ keyDeps = NoDeps

ParserNext ==
  \/ \E r \in StreamIds : StreamChunk(r)
  \/ \E r \in StreamIds : StreamEnd(r)
  \/ \E r \in StreamIds : StreamError(r)

SpecParser == ParserInit /\ [][ParserNext]_vars

\* The review with the editor: a session in placeholder mode whose stream has
\* just opened on a script of MinPanels panels or of one more.
EditorInit ==
  /\ storyIdea = "idea"
  /\ numPanels = MinPanels
  /\ isDevMode = TRUE
  /\ isLoading = FALSE
  /\ isGenerated = FALSE
  /\ isReviewingScript = TRUE
  /\ isRegeneratingScript = FALSE
  /\ isRegeneratingImage = FALSE
  /\ progressMessage = "info"
  /\ scenes = <<>>
  /\ characterImageB64 = Null
  /\ \E t \in SessionTextIds :
       streams = [r \in StreamIds |->
                    IF r = 1
                    THEN [st |-> "reading", owner |-> "generate", text |-> t, pos |-> 0,
                          lastParsedLength |-> 0]
                    ELSE NoStream]
  /\ bulk = IdleBulk
  /\ regen = IdleRegen
  /\ editingScene = NoScene
  /\ editedScene = NoScene
  /\ isRegenerating = FALSE
  /\ revision = IdleRevision
  /\ isSlideshowOpen = FALSE
  /\ currentIndex = 0
  /\ isCompleted = FALSE
  /\ keyDeps = NoDeps

EditorNext ==
  \/ ~AlertOpen /\ \E r \in StreamIds : StreamChunk(r)
  \/ ~AlertOpen /\ \E r \in StreamIds : StreamEnd(r)
  \/ ~AlertOpen /\ \E r \in StreamIds : StreamError(r)
  \/ ~AlertOpen /\ ~ModalOpen /\ HandleStartImageGeneration
  \/ ~AlertOpen /\ BulkPlaceholderDone
  \/ \E k \in EditPanels : OpenEditor(k)
  \/ CloseEditor
  \/ \E name \in {"script", "panel_text"} : HandleChange(name)
  \/ HandleSave
  \/ HandleRegenerate
  \/ RevisionResolve
  \/ RevisionFail
  \/ AlertDismiss

SpecEditor == EditorInit /\ [][EditorNext]_vars

\* The slideshow: a comic finished outside placeholder mode, of MinPanels
\* panels or of one more, whose one flaky panel ended Ready or Failed.  Panel
\* images can be regenerated before the slideshow is opened and come back
\* while it plays.
SlideshowInit ==
  /\ storyIdea = "idea"
  /\ numPanels = MinPanels
  /\ isDevMode = FALSE
  /\ isLoading = FALSE
  /\ isGenerated = TRUE
  /\ isReviewingScript = FALSE
  /\ isRegeneratingScript = FALSE
  /\ isRegeneratingImage = FALSE
  /\ progressMessage = "info"
  /\ characterImageB64 = CharacterImage
  /\ streams = [r \in StreamIds |-> NoStream]
  /\ \E t \in SessionTextIds : \E ok \in [FlakyPanels -> BOOLEAN] :
       LET written == ToScenes(JSONParse(Texts[t]).val.items)
           good(i) == i \notin FlakyPanels \/ ok[i]
       IN /\ scenes = [i \in 1..Len(written) |->
                         [written[i] EXCEPT !.imageUrl = IF good(i) THEN "image" ELSE Failed]]
          /\ bulk = [pc |-> "idle",
                     tasks |-> [i \in 1..Len(written) |-> IF good(i) THEN "ready" ELSE "failed"],
                     charImgB64 |-> CharacterImage,
                     requests |-> {CharacterImage}]
  /\ regen = IdleRegen
  /\ editingScene = NoScene
  /\ editedScene = NoScene
  /\ isRegenerating = FALSE
  /\ revision = IdleRevision
  /\ isSlideshowOpen = FALSE
  /\ currentIndex = 0
  /\ isCompleted = FALSE
  /\ keyDeps = NoDeps

\* HandleRestart is not among the steps: it needs the completed view with no
\* effect pending, and the render that sets isCompleted always has the
\* key-handler effect pending.
SlideshowNext ==
  \/ PlaySlideshow
  \/ CloseSlideshow
  \/ GoToPrevious
  \/ GoToNext
  \/ KeyEffect
  \/ ~EffectPending /\ ~isSlideshowOpen /\ \E i \in FlakyPanels : HandleRegenerateImage(i)
  \/ ~EffectPending /\ RegenFirstAttempt
  \/ ~EffectPending /\ RegenBackoff
  \/ ~EffectPending /\ RegenSecondAttempt

SpecSlideshow == SlideshowInit /\ [][SlideshowNext]_vars

(***************************************************************************)
(* Properties.  A panel is Pending or Loading while imageUrl is null,      *)
(* Retrying at 'RETRYING', Failed at 'FAILED' and Ready with an image.     *)
(***************************************************************************)
Terminal(u) == u \notin {Null, Retrying}

\* The run of generateScripts in slot r has read all of a text that is a valid
\* array of panel objects.
ReadWhole(r) ==
  /\ streams[r].st = "reading"
  /\ streams[r].pos = Len(Texts[streams[r].text])
  /\ IsPanelArray(Texts[streams[r].text])

\* The elements of the array a text holds.
ItemsOf(t) == JSONParse(Texts[t]).val.items

\* Does panel record sc carry the three texts of array element item?
SameContent(sc, item) ==
  /\ sc.script = Field(item, "script")
  /\ sc.image_prompt = Field(item, "image_prompt")
  /\ sc.panel_text = Field(item, "panel_text")

\* C1: within a session, a panel that is Ready or Failed keeps its status in
\* every step, except the step in which Regenerate Image is clicked on that
\* panel, which sets it to Loading; the form is shown only between sessions.
C1_TerminalStatusStable ==
  [][(~FormVisible /\ ~FormVisible') =>
       \A i \in 1..Len(scenes) :
         Terminal(scenes[i].imageUrl) =>
           \/ /\ i <= Len(scenes')
              /\ scenes'[i].imageUrl = scenes[i].imageUrl
           \/ /\ regen.pc = "idle"
              /\ regen'.pc = "first"
              /\ regen'.index = i
              /\ i <= Len(scenes')
              /\ scenes'[i].imageUrl = Null]_vars

\* C2: in the step in which the bulk operation settles (the panel requests
\* are joined, or the placeholder wait ends), every panel is Ready or Failed.
C2_SettledAllTerminal ==
  [][(bulk.pc \in {"panels", "devWait"} /\ bulk'.pc = "idle") =>
       \A i \in 1..Len(scenes') : Terminal(scenes'[i].imageUrl)]_vars

\* C3: every step of a panel's request chain in the bulk operation writes that
\* panel's status and no other: a first failure makes it Retrying and waits,
\* a success after it makes it Ready, a second failure makes it Failed; every
\* other panel's record and every other panel's chain stay as they are.
C3_RetryIsolated ==
  [][bulk.pc = "panels" =>
       \A i \in 1..Len(bulk.tasks) :
         bulk'.tasks[i] # bulk.tasks[i] =>
           /\ bulk.tasks[i] = "first" => bulk'.tasks[i] \in {"ready", "backoff"}
           /\ bulk.tasks[i] = "backoff" => bulk'.tasks[i] = "second"
           /\ bulk.tasks[i] = "second" => bulk'.tasks[i] \in {"ready", "failed"}
           /\ ~Resolved(bulk.tasks[i])
           /\ Len(scenes') = Len(scenes)
           /\ i <= Len(scenes) =>
                /\ bulk'.tasks[i] = "ready" => IsImage(scenes'[i].imageUrl)
                /\ bulk'.tasks[i] = "backoff" => scenes'[i].imageUrl = Retrying
                /\ bulk'.tasks[i] = "failed" => scenes'[i].imageUrl = Failed
                /\ bulk'.tasks[i] = "second" => scenes'[i] = scenes[i]
           /\ \A j \in 1..Len(bulk.tasks) : j # i => bulk'.tasks[j] = bulk.tasks[j]
           /\ \A j \in 1..Len(scenes) : j # i => scenes'[j] = scenes[j]]_vars

\* Panel 3 has failed twice and is Failed while another panel is Ready and a
\* third still waits for its first response.
C3_Witness ==
  /\ bulk.pc = "panels"
  /\ Len(scenes) = Len(bulk.tasks)
  /\ bulk.tasks[3] = "failed"
  /\ scenes[3].imageUrl = Failed
  /\ \E j \in 1..Len(bulk.tasks) : bulk.tasks[j] = "ready" /\ IsImage(scenes[j].imageUrl)
  /\ \E j \in 1..Len(bulk.tasks) : bulk.tasks[j] = "first" /\ scenes[j].imageUrl = Null

\* C4: the comic becomes complete only in a step that ends the bulk operation
\* with every panel's chain resolved to ready or failed (or that ends the
\* placeholder wait); the panel requests are left in no other way, and never
\* stay once every chain is resolved.
C4_CompleteWhenAllResolved ==
  [][/\ (~isGenerated /\ isGenerated') =>
          /\ bulk.pc \in {"panels", "devWait"}
          /\ bulk'.pc = "idle"
          /\ ~isLoading'
          /\ \A j \in 1..Len(bulk'.tasks) : Resolved(bulk'.tasks[j])
     /\ (bulk.pc = "panels" /\ bulk'.pc # "panels") =>
          /\ isGenerated'
          /\ ~isLoading'
          /\ progressMessage' # "error"
          /\ Len(bulk'.tasks) = Len(bulk.tasks)
          /\ \A j \in 1..Len(bulk'.tasks) : Resolved(bulk'.tasks[j])
     /\ (bulk.pc = "panels" /\ bulk'.pc = "panels") =>
          \E j \in 1..Len(bulk'.tasks) : ~Resolved(bulk'.tasks[j])]_vars

\* Five panels, panel 3 failed twice: four Ready, one Failed, comic complete.
C4_Witness ==
  /\ isGenerated
  /\ ~isLoading
  /\ bulk.pc = "idle"
  /\ Len(bulk.tasks) = MinPanels
  /\ Len(scenes) = MinPanels
  /\ \A j \in 1..MinPanels :
       IF j = 3
       THEN bulk.tasks[j] = "failed" /\ scenes[j].imageUrl = Failed
       ELSE bulk.tasks[j] = "ready" /\ IsImage(scenes[j].imageUrl)

\* C5: once a run has read all of a text that is a valid array of N panel
\* objects, in whatever fragments, the panel list has N panels, panel i
\* numbered i, Pending, with the texts of element i of the array.
C5_RechunkingSameList ==
  \A r \in StreamIds :
    ReadWhole(r) =>
      /\ Len(scenes) = Len(ItemsOf(streams[r].text))
      /\ streams[r].lastParsedLength = Len(scenes)
      /\ \A i \in 1..Len(scenes) :
           /\ scenes[i].scene = i
           /\ scenes[i].imageUrl = Null
           /\ SameContent(scenes[i], ItemsOf(streams[r].text)[i])

\* The two-panel text whose first panel calls itself scene 7 has been read in
\* more than one fragment.
C5_Witness ==
  \E r \in StreamIds :
    /\ ReadWhole(r)
    /\ streams[r].text = 4
    /\ Len(scenes) = 2
    /\ Field(ItemsOf(4)[1], "scene") = JNumber(7)
    /\ scenes[1].scene = 1

\* C6: while a run reads its stream, neither the visible panel list nor the
\* length the run last emitted ever gets shorter.
C6_LengthNeverShrinks ==
  [][\A r \in StreamIds :
       (streams[r].st = "reading" /\ streams'[r].st = "reading") =>
         /\ Len(scenes') >= Len(scenes)
         /\ streams'[r].lastParsedLength >= streams[r].lastParsedLength
         /\ Len(scenes') = streams'[r].lastParsedLength]_vars

\* A run has emitted through the repair parse: the three panels of the text
\* with white space are shown while its closing bracket is still unread.
C6_Witness ==
  \E r \in StreamIds :
    /\ streams[r].st = "reading"
    /\ streams[r].text = 5
    /\ streams[r].pos < Len(Texts[5]) - 1
    /\ Len(scenes) = 3

\* C7: while a run reads a text that is a valid array of panel objects, every
\* panel shown carries the texts of the element at its position in the whole
\* array, and no more panels are shown than the array has.
C7_EmittedPanelsAreFinal ==
  \A r \in StreamIds :
    (streams[r].st = "reading" /\ IsPanelArray(Texts[streams[r].text])) =>
      /\ Len(scenes) <= Len(ItemsOf(streams[r].text))
      /\ \A i \in 1..Len(scenes) :
           SameContent(scenes[i], ItemsOf(streams[r].text)[i])

\* The buffer ends inside the second panel's string "c," (after its comma)
\* and only the first panel is shown.
C7_Witness ==
  \E r \in StreamIds :
    /\ streams[r].st = "reading"
    /\ streams[r].text = 4
    /\ EndsWith(Buffer(streams[r]), ",")
    /\ EndsWith(SubSeq(Buffer(streams[r]), 1, streams[r].pos - 1), "c")
    /\ Len(scenes) = 1
    /\ scenes[1].script = JString(<<"a", "b">>)

\* C8: whenever the buffer read so far is k complete panel objects followed
\* by a comma, the k panels have been emitted.
C8_TrailingCommaEmits ==
  \A r \in StreamIds :
    (streams[r].st = "reading" /\ EndsWith(Buffer(streams[r]), ",")) =>
      LET closed == SubSeq(Buffer(streams[r]), 1, streams[r].pos - 1) \o <<"]">>
      IN IsPanelArray(closed) => Len(scenes) >= Len(JSONParse(closed).val.items)

\* C9: a step in which a run of generateScripts ends during the review, with
\* an error or with fewer panels than numPanels, leaves the review open with
\* the same panels and Regenerate Full Script enabled.
C9_RetryAfterStreamFailure ==
  [][\A r \in StreamIds :
       (/\ isReviewingScript
        /\ streams[r].st # "none"
        /\ streams'[r].st = "none"
        /\ (progressMessage' = "error" \/ Len(scenes) < numPanels)) =>
         /\ isReviewingScript'
         /\ scenes' = scenes
         /\ RegenerateEnabled']_vars

\* C10: Approve is enabled only with exactly numPanels panels.
C10_ApproveAtPanelCount == ApproveEnabled => Len(scenes) = numPanels

\* C11: whenever the comic is displayed, a panel is Failed and no
\* regeneration is running, Regenerate Image is offered for that panel.
C11_FailedPanelCanRegenerate ==
  \A i \in 1..Len(scenes) :
    (DisplayVisible /\ scenes[i].imageUrl = Failed /\ ~isRegeneratingImage) =>
      IsReadyForRegen(i)

\* C12: the click on Regenerate Image, made on a Ready panel of a completed
\* comic, sets that panel to Loading and changes nothing else of the panel
\* list; every later step of the run changes only that panel's imageUrl, and
\* the run ends with the panel Ready or Failed and the flag cleared.
C12_RegenerateThroughLoading ==
  [][/\ (regen.pc = "idle" /\ regen'.pc # "idle") =>
          /\ regen'.pc = "first"
          /\ isGenerated
          /\ regen'.index \in 1..Len(scenes)
          /\ IsImage(scenes[regen'.index].imageUrl)
          /\ scenes' = [scenes EXCEPT ![regen'.index].imageUrl = Null]
          /\ isRegeneratingImage'
     /\ (regen.pc # "idle" /\ regen' # regen) =>
          /\ Len(scenes') = Len(scenes)
          /\ \A j \in 1..Len(scenes) :
               IF j = regen.index
               THEN scenes'[j] = [scenes[j] EXCEPT !.imageUrl = scenes'[j].imageUrl]
               ELSE scenes'[j] = scenes[j]
          /\ regen'.pc = "idle" =>
               /\ ~isRegeneratingImage'
               /\ regen.index <= Len(scenes) =>
                    \/ IsImage(scenes'[regen.index].imageUrl)
                    \/ scenes'[regen.index].imageUrl = Failed]_vars

\* A regeneration of a panel that was Ready is under way: the panel is
\* Loading in the displayed comic, the other panels keep their images.
C12_Witness ==
  /\ isGenerated
  /\ isRegeneratingImage
  /\ regen.pc = "first"
  /\ regen.index \in 1..Len(scenes)
  /\ scenes[regen.index].imageUrl = Null
  /\ \A j \in 1..Len(scenes) : j # regen.index => IsImage(scenes[j].imageUrl)

\* C13: the step in which the character image request fails ends the bulk
\* operation with no panel request issued, the panel list and the character
\* image as they were, an error message, the loading flag cleared and the
\* comic not complete; and the comic becomes complete only out of the panel
\* requests or the placeholder wait.
C13_CharacterFailureAborts ==
  [][/\ (bulk.pc = "charImage" /\ bulk'.pc # "charImage" /\ bulk'.pc # "panels") =>
          /\ bulk' = IdleBulk
          /\ scenes' = scenes
          /\ characterImageB64' = Null
          /\ progressMessage' = "error"
          /\ ~isLoading'
          /\ ~isGenerated'
     /\ (bulk.pc = "charImage" /\ bulk'.pc = "panels") => characterImageB64' # Null
     /\ (bulk.pc = "charImage" /\ bulk' = bulk) => isGenerated' = isGenerated]_vars

\* The character image request has failed: the form is back with the error
\* message, the approved panels all still Pending and no character image.
C13_Witness ==
  /\ progressMessage = "error"
  /\ ~isLoading
  /\ ~isGenerated
  /\ ~isReviewingScript
  /\ ~isDevMode
  /\ bulk = IdleBulk
  /\ characterImageB64 = Null
  /\ Len(scenes) >= MinPanels
  /\ \A i \in 1..Len(scenes) : scenes[i].imageUrl = Null

\* The statuses a request chain writes.
Written == {"image", Retrying, Failed}

\* C14: while the panel requests run, for any two panels whose chains are
\* unresolved and any statuses their next steps write, the two updates give
\* the same panel list in either order, and an update changes the imageUrl of
\* its own panel and nothing else.
C14_UpdatesCommute ==
  bulk.pc = "panels" =>
    \A i, j \in 1..Len(bulk.tasks) :
      (i # j /\ ~Resolved(bulk.tasks[i]) /\ ~Resolved(bulk.tasks[j])) =>
        \A u, v \in Written :
          /\ SetImage(SetImage(scenes, i, u), j, v) = SetImage(SetImage(scenes, j, v), i, u)
          /\ Len(SetImage(scenes, i, u)) = Len(scenes)
          /\ \A k \in 1..Len(scenes) :
               SetImage(scenes, i, u)[k] =
                 IF k = i THEN [scenes[k] EXCEPT !.imageUrl = u] ELSE scenes[k]

\* Two chains are unresolved at once, panel 3 retrying after a failure and
\* panel 1 on its first request, while another panel is already Ready.
C14_Witness ==
  /\ bulk.pc = "panels"
  /\ Len(scenes) = Len(bulk.tasks)
  /\ bulk.tasks[3] = "second"
  /\ scenes[3].imageUrl = Retrying
  /\ bulk.tasks[1] = "first"
  /\ \E k \in 1..Len(scenes) : IsImage(scenes[k].imageUrl)

\* C15: a regeneration is started in a completed comic, so a run of it that
\* goes on while a script is under review belongs to a session discarded by
\* Create Another Comic; its steps change no panel of the session reviewed.
C15_StaleResultUnobservable ==
  [][(regen.pc # "idle" /\ regen' # regen /\ isReviewingScript) =>
       scenes' = scenes]_vars

\* C16: the step in which a single-panel revision succeeds gives the panel
\* with the revised number the three texts of the response and changes
\* neither that panel's number or imageUrl nor any other panel.
C16_RevisionFrame ==
  [][(revision.pc = "calling" /\ revision'.pc = "idle") =>
       /\ Len(scenes') = Len(scenes)
       /\ \A i \in 1..Len(scenes) :
            /\ scenes'[i].scene = scenes[i].scene
            /\ scenes'[i].imageUrl = scenes[i].imageUrl
            /\ scenes[i].scene # revision.scene => scenes'[i] = scenes[i]
            /\ scenes[i].scene = revision.scene =>
                 \E t \in 1..Len(RevisionTexts) :
                   /\ RevisionParse[t].ok
                   /\ SameContent(scenes'[i], RevisionParse[t].val)]_vars

\* A panel carries the revised texts and a placeholder image, the other
\* panels the texts of the script.
C16_Witness ==
  /\ Len(scenes) >= MinPanels
  /\ \E k \in 1..Len(scenes) :
       /\ SameContent(scenes[k], RevisionParse[1].val)
       /\ scenes[k].scene = k
       /\ scenes[k].imageUrl = "placeholder"
       /\ \A j \in 1..Len(scenes) :
            j # k => /\ ~SameContent(scenes[j], RevisionParse[1].val)
                     /\ scenes[j].imageUrl = "placeholder"

\* C17: the step in which a single-panel revision fails only opens the alert,
\* and the step that dismisses it only clears the flag of the modal that
\* started the run: the panel list, the session's message and flags and the
\* scene being edited stay as they are.
C17_RevisionFailureLocal ==
  [][/\ (revision.pc = "calling" /\ revision'.pc \notin {"calling", "idle"}) =>
          /\ revision'.pc = "alert"
          /\ isRegenerating' = isRegenerating
          /\ scenes' = scenes
          /\ progressMessage' = progressMessage
          /\ UNCHANGED <<slideVars, formVars, flagVars, imageVars, streams, editingScene, editedScene>>
     /\ (revision.pc = "alert" /\ revision' # revision) =>
          /\ revision' = IdleRevision
          /\ isRegenerating' = (IF revision.mounted THEN FALSE ELSE isRegenerating)
          /\ scenes' = scenes
          /\ progressMessage' = progressMessage
          /\ UNCHANGED <<slideVars, formVars, flagVars, imageVars, streams, editingScene, editedScene>>]_vars

\* The alert of a failed revision is open over the modal that started it, the
\* script under review complete and no error message on the page.
C17_Witness ==
  /\ AlertOpen
  /\ ModalOpen
  /\ isRegenerating
  /\ revision.mounted
  /\ revision.scene = editingScene.scene
  /\ isReviewingScript
  /\ Len(scenes) >= MinPanels
  /\ progressMessage = "info"

\* C18: the panel at position i has number i, and there are never more
\* panels than numPanels.
C18_IndexedWithinPanelCount ==
  /\ \A i \in 1..Len(scenes) : scenes[i].scene = i
  /\ Len(scenes) <= numPanels

\* C19: in placeholder mode, from Approve on (during the placeholder wait and
\* in the completed comic) every panel is Ready with a stand-in image, none
\* is Retrying or Failed, and no request for a character image or a panel
\* image is running or has delivered.
C19_PlaceholderAllReady ==
  (isDevMode /\ (bulk.pc = "devWait" \/ isGenerated)) =>
    /\ \A i \in 1..Len(scenes) :
         /\ scenes[i].imageUrl \notin {Retrying, Failed}
         /\ scenes[i].imageUrl = "placeholder"
    /\ bulk.pc \notin {"charImage", "panels"}
    /\ characterImageB64 = Null

\* C20: the click on Regenerate Full Script is made in the review with at
\* least numPanels panels, empties the panel list, keeps the review open and
\* starts a run of generateScripts; a run starts reading with an empty buffer
\* and emitted length 0; and while the regeneration goes on, only the run it
\* started changes the panel list.
C20_RegenerateRebuildsFromNewRun ==
  [][/\ (~isRegeneratingScript /\ isRegeneratingScript') =>
          /\ isReviewingScript
          /\ Len(scenes) >= numPanels
          /\ scenes' = <<>>
          /\ isReviewingScript'
          /\ \E r \in StreamIds :
               streams[r].st = "none" /\ streams'[r] = NewStream("regenerate")
     /\ \A r \in StreamIds :
          (streams[r].st = "calling" /\ streams'[r].st = "reading") =>
            /\ streams'[r].pos = 0
            /\ streams'[r].lastParsedLength = 0
     /\ \A r \in StreamIds :
          (/\ isRegeneratingScript
           /\ streams[r].st = "reading"
           /\ streams'[r].st = "reading"
           /\ streams'[r].pos > streams[r].pos
           /\ scenes' # scenes) =>
            streams[r].owner = "regenerate"]_vars

(***************************************************************************)
(* The retry protocol of the two image handlers.                           *)
(***************************************************************************)
\* The moves of one panel task of handleStartImageGeneration.  A request to
\* the panel-image service is in flight exactly in "first" and in "second".
TaskMoves ==
  {<<"waiting", "first">>, <<"first", "ready">>, <<"first", "backoff">>,
   <<"backoff", "second">>, <<"second", "ready">>, <<"second", "failed">>}

\* The moves of the run of handleRegenerateImage.
RegenMoves ==
  {<<"idle", "first">>, <<"first", "idle">>, <<"first", "backoff">>,
   <<"backoff", "second">>, <<"second", "idle">>}

\* C21: in one bulk run and in one single-panel regeneration a panel's chain
\* only moves forward through first request, backoff, second request, so the
\* panel-image service is called at most twice for it; the second request is
\* issued only from the backoff that the first failure entered, and the step
\* that enters the backoff writes Retrying into the panel; Failed is written
\* only by the step that ends a second request.
C21_SecondCallOnlyAfterRetrying ==
  [][/\ (bulk.pc \in {"charImage", "panels"} /\ bulk'.tasks # <<>>) =>
          /\ Len(bulk'.tasks) = Len(bulk.tasks)
          /\ \A i \in 1..Len(bulk.tasks) :
               /\ bulk'.tasks[i] = bulk.tasks[i] \/ <<bulk.tasks[i], bulk'.tasks[i]>> \in TaskMoves
               /\ (bulk.tasks[i] = "first" /\ bulk'.tasks[i] = "backoff" /\ i <= Len(scenes)) =>
                    (i <= Len(scenes') /\ scenes'[i].imageUrl = Retrying)
     /\ regen'.pc = regen.pc \/ <<regen.pc, regen'.pc>> \in RegenMoves
     /\ (regen.pc # "idle" /\ regen'.pc # "idle") => regen'.index = regen.index
     /\ (regen.pc = "first" /\ regen'.pc = "backoff" /\ regen.index <= Len(scenes)) =>
          (regen.index <= Len(scenes') /\ scenes'[regen.index].imageUrl = Retrying)
     /\ \A i \in 1..Len(scenes') :
          (scenes'[i].imageUrl = Failed /\ (i > Len(scenes) \/ scenes[i].imageUrl # Failed)) =>
             \/ i <= Len(bulk.tasks) /\ bulk.tasks[i] = "second" /\ bulk'.tasks[i] = "failed"
             \/ regen.pc = "second" /\ regen.index = i /\ regen'.pc = "idle"
    ]_vars

\* A second request in flight for a panel that shows Retrying.
C21_Witness ==
  /\ bulk.pc = "panels"
  /\ \E i \in 1..Len(bulk.tasks) :
       /\ bulk.tasks[i] = "second"
       /\ i <= Len(scenes)
       /\ scenes[i].imageUrl = Retrying

\* The moves of the run of handleStartImageGeneration.  The call of
\* generateCharacterImage is in flight exactly in "charImage".
BulkMoves ==
  {<<"idle", "devWait">>, <<"devWait", "idle">>, <<"idle", "charImage">>,
   <<"charImage", "panels">>, <<"charImage", "idle">>, <<"panels", "idle">>}

\* C22: in a bulk run outside placeholder mode the reference-image service is
\* called once, at the start of the run, and never again in that run; while
\* that call is in flight no panel-image request has been issued; every
\* panel-image request of the run, first attempt or retry, is given the image
\* that call resolved with, which is also the one stored in the state.
C22_OneReferenceForAllRequests ==
  /\ [](/\ bulk.pc = "charImage" =>
             /\ bulk.requests = {}
             /\ \A i \in 1..Len(bulk.tasks) : bulk.tasks[i] = "waiting"
        /\ bulk.pc = "panels" =>
             /\ bulk.charImgB64 = CharacterImage
             /\ bulk.requests = {bulk.charImgB64}
             /\ characterImageB64 = bulk.charImgB64)
  /\ [][/\ bulk'.pc = bulk.pc \/ <<bulk.pc, bulk'.pc>> \in BulkMoves
        /\ bulk.pc = "panels" =>
             /\ bulk'.charImgB64 = bulk.charImgB64
             /\ bulk'.requests = {bulk.charImgB64}]_vars

\* A retry in flight next to a panel whose first request succeeded.
C22_Witness ==
  /\ bulk.pc = "panels"
  /\ bulk.requests = {CharacterImage}
  /\ \E i, j \in 1..Len(bulk.tasks) : bulk.tasks[i] = "second" /\ bulk.tasks[j] = "ready"

\* C23: in the slideshow, advancing past the last panel sets isCompleted and
\* leaves the index on the last panel, and while the slideshow is open
\* isCompleted stays set until the user clicks Restart, which sets the index
\* to 0 and clears it, or closes the slideshow.
C23_CompletedUntilRestart ==
  [][/\ (isSlideshowOpen /\ ~isCompleted /\ isCompleted') =>
          /\ currentIndex = Len(scenes) - 1
          /\ currentIndex' = currentIndex
     /\ (isSlideshowOpen /\ isCompleted /\ ~isCompleted') =>
          \/ HandleRestart /\ currentIndex' = 0
          \/ CloseSlideshow
     /\ (isSlideshowOpen /\ isCompleted /\ isSlideshowOpen') =>
          (isCompleted' => currentIndex' = currentIndex)
    ]_vars

\* The panels shown are the ones the run in slot r last emitted.
ProducedCurrent(r) ==
  /\ streams[r].st = "reading"
  /\ streams[r].lastParsedLength > 0
  /\ scenes # <<>>
  /\ Len(scenes) <= Len(ItemsOf(streams[r].text))
  /\ \A i \in 1..Len(scenes) :
       /\ SameContent(scenes[i], ItemsOf(streams[r].text)[i])
       /\ scenes[i].imageUrl = Null

\* C24: whenever Approve or Regenerate Full Script is enabled, the script
\* stream that produced the panels shown has ended, so that none of its
\* emissions can follow the click; and no emission changes the panel list
\* once the session has left the review.
C24_ButtonsOnlyAfterStreamEnd ==
  /\ []((ApproveEnabled \/ RegenerateEnabled) => \A r \in StreamIds : ~ProducedCurrent(r))
  /\ [][\A r \in StreamIds :
          (streams[r].st = "reading" /\ streams'[r].st = "reading"
             /\ streams'[r].pos > streams[r].pos /\ scenes' # scenes) => isReviewingScript]_vars

\* C25: a panel whose texts are not the ones the stream being read wrote,
\* because handleUpdateScene saved an edit over them or a single-panel
\* revision replaced them, is still in the panel list, unchanged, after every
\* later step of that stream's loop.
C25_EditsSurviveEmissions ==
  [][\A r \in StreamIds :
       (streams[r].st = "reading" /\ streams'[r].st = "reading"
          /\ streams'[r].pos > streams[r].pos) =>
         \A k \in 1..Len(scenes) :
           (k <= Len(ItemsOf(streams[r].text))
              /\ ~SameContent(scenes[k], ItemsOf(streams[r].text)[k])) =>
             (k <= Len(scenes') /\ scenes'[k] = scenes[k])]_vars

\* C26: with every image request answered in the end, a run started by an
\* accepted Approve ends: isLoading is cleared and the session is then
\* Completed or shows a session-level error; and a started single-panel
\* regeneration ends with isRegeneratingImage cleared.
C26_ImageWorkEnds ==
  /\ (isLoading /\ bulk.pc # "idle") ~>
       (bulk.pc = "idle" /\ ~isLoading /\ (isGenerated \/ progressMessage = "error"))
  /\ (isRegeneratingImage /\ regen.pc # "idle") ~> (regen.pc = "idle" /\ ~isRegeneratingImage)

\* A run that retried a panel to the end has left ImageGenerating as
\* Completed, and a regeneration started afterwards is at its retry.
C26_Witness ==
  /\ bulk.pc = "idle"
  /\ \E i \in 1..Len(bulk.tasks) : bulk.tasks[i] = "ready"
  /\ ~isLoading
  /\ isGenerated
  /\ isRegeneratingImage
  /\ regen.pc = "second"

====
